---- MODULE Spec2Model ----
(***************************************************************************)
(* StorySense rating app (src/StorySense_app/StorySense.py).               *)
(*                                                                         *)
(* The app is a Streamlit script: every user interaction re-executes the   *)
(* whole script (RatingApp() followed by RatingApp.run()) against the      *)
(* session's st.session_state.  One action of this module is one           *)
(* interaction: the widget the rater touched, then the script run it       *)
(* triggers, then - when the script calls st.rerun() - the second run.     *)
(*                                                                         *)
(* What the rating form's widgets hold when the script reads them is the   *)
(* rater's input: a form input says which widgets the rater has touched    *)
(* and the value each of those holds; an untouched widget returns the      *)
(* default the script gives it.                                            *)
(*                                                                         *)
(* JSON values are modelled structurally.  An uploaded file is a record    *)
(* [kind, has_stories, stories]; a story case is [has_id, story_id].  The  *)
(* other fields of a case (original, arm_a, arm_b) are only displayed and  *)
(* are taken to be present.  A Python dict is a sequence of key/value      *)
(* items in insertion order.                                               *)
(***************************************************************************)
EXTENDS Integers, Sequences, FiniteSets, TLC

(* ------------------------------ bounds --------------------------------- *)

\* longest "stories" list of an uploaded file
MaxStories == 2

(* -------------------------- program constants -------------------------- *)

\* st.slider(label, 1, 5, 3, ...)
SliderMin == 1
SliderMax == 5
SliderDefault == 3

Facets == {"Independent", "Negotiable", "Valuable", "Estimable", "Small", "Testable"}
Qualities == {"readability", "understandability", "completeness"}
Arms == {"A", "B"}

\* the options of the "Final Verdict" radio, in order
WinnerOptions == <<"A is better", "B is better", "Both are equal", "Both are poor">>
\* st.radio without index= selects the first option
RadioDefault == WinnerOptions[1]
\* st.text_area / st.text_input without value= hold the empty string
TextDefault == ""

(* ------------------------------ inputs --------------------------------- *)

StoryIds == {"S1", "S2"}
RaterNames == {"", "alice"}

Case(sid) == [has_id |-> TRUE, story_id |-> sid]
CaseNoId == [has_id |-> FALSE, story_id |-> ""]
Cases == {Case(sid) : sid \in StoryIds} \cup {CaseNoId}

SeqsUpTo(S, n) == UNION {[1..k -> S] : k \in 0..n}

\* no file in the uploader
NoFile == [kind |-> "none", has_stories |-> FALSE, stories |-> <<>>]
\* a file that is not JSON
InvalidJson == [kind |-> "invalid_json", has_stories |-> FALSE, stories |-> <<>>]
\* a JSON document whose top level is a list
JsonList == [kind |-> "list", has_stories |-> FALSE, stories |-> <<>>]
\* a JSON object without a "stories" member
JsonNoStories == [kind |-> "dict", has_stories |-> FALSE, stories |-> <<>>]
JsonStories(ss) == [kind |-> "dict", has_stories |-> TRUE, stories |-> ss]

Files == {InvalidJson, JsonList, JsonNoStories}
         \cup {JsonStories(ss) : ss \in SeqsUpTo(Cases, MaxStories)}

(* ---------------------------- Python dict ------------------------------ *)

DictKeys(d) == {d[i].key : i \in 1..Len(d)}
DictHas(d, k) == \E i \in 1..Len(d) : d[i].key = k
DictGet(d, k) == d[CHOOSE i \in 1..Len(d) : d[i].key = k].value
\* d[k] = v
DictSet(d, k, v) ==
    IF DictHas(d, k)
    THEN [i \in 1..Len(d) |-> IF d[i].key = k THEN [key |-> k, value |-> v] ELSE d[i]]
    ELSE Append(d, [key |-> k, value |-> v])

(* ------------------------------- state --------------------------------- *)

VARIABLES
    present,          \* the keys st.session_state holds
    current_idx,      \* st.session_state.current_idx
    ratings,          \* st.session_state.ratings (dict story_id -> record)
    stories_loaded,   \* st.session_state.stories_loaded
    evaluation_data,  \* st.session_state.evaluation_data
    rater_name,       \* st.session_state.rater_name (key of the text input)
    uploaded_file,    \* the file the uploader holds
    download,         \* the document of the download button, <<>> when none
    outcome,          \* how the last script run ended
    event,            \* the last interaction
    saved             \* history: story_id -> the last save made for it

vars == <<present, current_idx, ratings, stories_loaded, evaluation_data,
          rater_name, uploaded_file, download, outcome, event, saved>>

(* ------------------------- rating form widgets ------------------------- *)

Widget(w, name, arm) == [w |-> w, name |-> name, arm |-> arm]

InvestSlider(facet, arm) == Widget("invest", facet, arm)
QualitySlider(q, arm) == Widget("quality", q, arm)
PrefSlider(arm) == Widget("pref", "", arm)
CommentsArea == Widget("comments", "", "")
WinnerRadio == Widget("winner", "", "")

Sliders ==
    {InvestSlider(f, a) : f \in Facets, a \in Arms}
    \cup {QualitySlider(q, a) : q \in Qualities, a \in Arms}
    \cup {PrefSlider(a) : a \in Arms}
FormWidgets == Sliders \cup {CommentsArea, WinnerRadio}

\* the rater has touched nothing
Untouched == [touched |-> {}, value |-> <<>>]
\* the rater has set every widget: the sliders to their minimum
AllLowest ==
    [touched |-> FormWidgets,
     value |-> [k \in FormWidgets |->
                  IF k = CommentsArea THEN "unclear"
                  ELSE IF k = WinnerRadio THEN WinnerOptions[4]
                  ELSE SliderMin]]
\* the rater has set the sliders of arm B to their maximum and the verdict
ArmBHighest ==
    [touched |-> {k \in Sliders : k.arm = "B"} \cup {WinnerRadio},
     value |-> [k \in {k \in Sliders : k.arm = "B"} \cup {WinnerRadio} |->
                  IF k = WinnerRadio THEN WinnerOptions[2] ELSE SliderMax]]

FormInputs == {Untouched, AllLowest, ArmBHighest}

\* mutant: the slider's initial value is given as 0
slider_ZeroDefault(form, k) == IF k \in form.touched THEN form.value[k] ELSE 0

\* st.slider(label, 1, 5, 3, key=...)
slider(form, k) == IF k \in form.touched THEN form.value[k] ELSE SliderDefault
\* st.text_area(label, key=...)
text_area(form, k) == IF k \in form.touched THEN form.value[k] ELSE TextDefault
\* st.radio(label, options, key=...)
radio(form, k) == IF k \in form.touched THEN form.value[k] ELSE RadioDefault

render_invest_ratings(form, arm) ==
    [f \in Facets |-> slider(form, InvestSlider(f, arm))]

render_quality_ratings(form, arm) ==
    [q \in Qualities |-> slider(form, QualitySlider(q, arm))]

render_rating_form(form) ==
    [arm_a            |-> render_invest_ratings(form, "A"),
     arm_a_quality    |-> render_quality_ratings(form, "A"),
     arm_a_preference |-> slider(form, PrefSlider("A")),
     arm_b            |-> render_invest_ratings(form, "B"),
     arm_b_quality    |-> render_quality_ratings(form, "B"),
     arm_b_preference |-> slider(form, PrefSlider("B")),
     comments         |-> text_area(form, CommentsArea),
     winner           |-> radio(form, WinnerRadio)]

(* ------------------------------ the script ----------------------------- *)

\* the session as the script sees it, with the run's bookkeeping:
\* status = "running" or the way the run ended, acted = the button whose
\* "if st.button(...)" the script has evaluated with the button pressed
Session ==
    [present |-> present, current_idx |-> current_idx, ratings |-> ratings,
     stories_loaded |-> stories_loaded, evaluation_data |-> evaluation_data,
     rater_name |-> rater_name,
     download |-> <<>>, status |-> "running", acted |-> "none"]

\* an uncaught exception, st.rerun() or the end of the script ends the run
EndRun(s, how) == [s EXCEPT !.status = how]

init_session_state(s) ==
    [s EXCEPT
        !.current_idx = IF "current_idx" \in s.present THEN @ ELSE 0,
        !.ratings = IF "ratings" \in s.present THEN @ ELSE <<>>,
        !.stories_loaded = IF "stories_loaded" \in s.present THEN @ ELSE FALSE,
        !.present = @ \cup {"current_idx", "ratings", "stories_loaded"}]

\* st.text_input("Your Name", key="rater_name"): a keyed widget puts its
\* value, "" until the rater types, into st.session_state
RaterNameInput(s) ==
    IF "rater_name" \in s.present THEN s
    ELSE [s EXCEPT !.rater_name = TextDefault, !.present = @ \cup {"rater_name"}]

\* mutant: a load starts the session over
LoadUploadedFile_Reset(s, file) ==
    IF file.kind = "none" THEN s
    ELSE IF file.kind = "invalid_json" THEN EndRun(s, "JSONDecodeError")
    ELSE [s EXCEPT !.evaluation_data = file,
                   !.stories_loaded = TRUE,
                   !.current_idx = 0,
                   !.present = @ \cup {"evaluation_data"}]

\* if uploaded_file: data = json.load(uploaded_file); ...
LoadUploadedFile(s, file) ==
    IF file.kind = "none" THEN s
    ELSE IF file.kind = "invalid_json" THEN EndRun(s, "JSONDecodeError")
    ELSE [s EXCEPT !.evaluation_data = file,
                   !.stories_loaded = TRUE,
                   !.present = @ \cup {"evaluation_data"}]

\* evaluation_data.get('stories', []) on a dict
GetStories(data) == IF data.has_stories THEN data.stories ELSE <<>>

\* json.dumps of a dict emits one member per item, in order
JsonMembers(d) == [i \in 1..Len(d) |-> <<d[i].key, d[i].value>>]

\* mutant: total_rated counts the stories of the dataset
export_ratings_CountStories(s) ==
    [metadata |-> [total_rated |-> Len(GetStories(s.evaluation_data)),
                   rater |-> IF "rater_name" \in s.present
                             THEN s.rater_name ELSE "anonymous"],
     ratings |-> JsonMembers(s.ratings)]

export_ratings(s) ==
    [metadata |-> [total_rated |-> Len(s.ratings),
                   rater |-> IF "rater_name" \in s.present
                             THEN s.rater_name ELSE "anonymous"],
     ratings |-> JsonMembers(s.ratings)]

\* the "Progress" part of the sidebar and the Export button
SidebarProgress(s, click) ==
    IF ~s.stories_loaded THEN s
    ELSE IF s.evaluation_data.kind # "dict" THEN EndRun(s, "AttributeError")
    ELSE LET total == Len(GetStories(s.evaluation_data))
             rated == Len(s.ratings)
         IN  \* st.progress takes a float in [0.0, 1.0] only
             IF total > 0 /\ rated > total THEN EndRun(s, "StreamlitAPIException")
             ELSE IF click = "export"
                  THEN [s EXCEPT !.download = <<export_ratings(s)>>,
                                 !.acted = "export"]
                  ELSE s

\* mutant: every save adds an entry
save_ratings_Append(rs, rec, story_id) == Append(rs, [key |-> story_id, value |-> rec])

save_ratings(rs, rec, story_id) == DictSet(rs, story_id, rec)

PreviousButton(s, click) ==
    IF click = "previous"
    THEN IF s.current_idx > 0
         THEN EndRun([s EXCEPT !.current_idx = @ - 1, !.acted = click], "rerun")
         ELSE [s EXCEPT !.acted = click]
    ELSE s

NextButton(s, click, stories) ==
    IF click = "next"
    THEN IF s.current_idx < Len(stories) - 1
         THEN EndRun([s EXCEPT !.current_idx = @ + 1, !.acted = click], "rerun")
         ELSE [s EXCEPT !.acted = click]
    ELSE s

\* mutant: the auto-advance wraps around after the last story
SaveButton_Wrap(s, click, stories, rec, story_id) ==
    IF click = "save"
    THEN LET s1 == [s EXCEPT !.ratings = save_ratings(@, rec, story_id),
                             !.acted = click]
         IN  EndRun([s1 EXCEPT !.current_idx = (@ + 1) % Len(stories)], "rerun")
    ELSE EndRun(s, "ok")

SaveButton(s, click, stories, rec, story_id) ==
    IF click = "save"
    THEN LET s1 == [s EXCEPT !.ratings = save_ratings(@, rec, story_id),
                             !.acted = click]
         IN  IF s1.current_idx < Len(stories) - 1
             THEN EndRun([s1 EXCEPT !.current_idx = @ + 1], "rerun")
             ELSE EndRun(s1, "ok")
    ELSE EndRun(s, "ok")

\* current_story = stories[current_idx]; story_id = current_story['story_id'];
\* the comparison, the rating form and the Save button
CurrentStory(s, click, form, stories) ==
    IF s.current_idx >= Len(stories) THEN EndRun(s, "IndexError")
    ELSE LET current_story == stories[s.current_idx + 1] IN
         IF ~current_story.has_id THEN EndRun(s, "KeyError")
         ELSE LET story_id == current_story.story_id
                  rec == render_rating_form(form)
              IN  SaveButton(s, click, stories, rec, story_id)

\* mutant: no check for an empty stories list
MainContent_NoEmptyCheck(s, click, form) ==
    IF ~s.stories_loaded THEN EndRun(s, "awaiting_upload")
    ELSE LET stories == GetStories(s.evaluation_data) IN
         LET s1 == PreviousButton(s, click) IN
         IF s1.status # "running" THEN s1
         ELSE LET s2 == NextButton(s1, click, stories) IN
              IF s2.status # "running" THEN s2
              ELSE CurrentStory(s2, click, form, stories)

MainContent(s, click, form) ==
    IF ~s.stories_loaded THEN EndRun(s, "awaiting_upload")
    ELSE LET stories == GetStories(s.evaluation_data) IN
         IF stories = <<>> THEN EndRun(s, "no_stories")
         ELSE LET s1 == PreviousButton(s, click) IN
              IF s1.status # "running" THEN s1
              ELSE LET s2 == NextButton(s1, click, stories) IN
                   IF s2.status # "running" THEN s2
                   ELSE CurrentStory(s2, click, form, stories)

\* RatingApp(); app.run()
Script(s, file, click, form) ==
    LET s1 == LoadUploadedFile(RaterNameInput(init_session_state(s)), file) IN
    IF s1.status # "running" THEN s1
    ELSE LET s2 == SidebarProgress(s1, click) IN
         IF s2.status # "running" THEN s2 ELSE MainContent(s2, click, form)

\* after st.rerun() the script runs again, with no button pressed
Rerun(r1, file, form) ==
    IF r1.status = "rerun"
    THEN Script([r1 EXCEPT !.status = "running", !.download = <<>>], file, "none", form)
    ELSE r1

(* ------------------------------ actions -------------------------------- *)

\* what the last run left on the page
Started == outcome # "not_started"
NavRendered == outcome \in {"ok", "IndexError", "KeyError"}
FormRendered == outcome = "ok"
ExportRendered ==
    /\ stories_loaded
    /\ outcome \notin {"not_started", "JSONDecodeError", "AttributeError",
                       "StreamlitAPIException"}

\* the story_id the page displays (when the form is rendered)
DisplayedStoryId == GetStories(evaluation_data)[current_idx + 1].story_id

\* One interaction.  ev names it; a click whose button the script did not
\* reach (the run ended before the button's line) is recorded as lost.
\* saved records, for the story on display, what the rater submitted.
Interact(ev, s, file, click, form) ==
    \E r1 \in {Script(s, file, click, form)} : \E r \in {Rerun(r1, file, form)} :
        /\ present' = r.present
        /\ current_idx' = r.current_idx
        /\ ratings' = r.ratings
        /\ stories_loaded' = r.stories_loaded
        /\ evaluation_data' = r.evaluation_data
        /\ rater_name' = r.rater_name
        /\ download' = r.download
        /\ outcome' = r.status
        /\ uploaded_file' = file
        /\ event' = IF click = "none" THEN ev
                    ELSE IF r.acted = click THEN click ELSE "click_lost"
        /\ saved' = IF r.acted = "save"
                    THEN [k \in (DOMAIN saved) \cup {DisplayedStoryId} |->
                            IF k = DisplayedStoryId
                            THEN [form |-> form, value |-> render_rating_form(form)]
                            ELSE saved[k]]
                    ELSE saved

Init ==
    /\ present = {}
    /\ current_idx = 0
    /\ ratings = <<>>
    /\ stories_loaded = FALSE
    /\ evaluation_data = NoFile
    /\ rater_name = ""
    /\ uploaded_file = NoFile
    /\ download = <<>>
    /\ outcome = "not_started"
    /\ event = "none"
    /\ saved = <<>>

\* the browser opens the page: the first run of the script
PageLoad ==
    /\ ~Started
    /\ Interact("page_load", Session, uploaded_file, "none", Untouched)

UploadFile(f) ==
    /\ Started
    /\ Interact("upload", Session, f, "none", Untouched)

RemoveFile ==
    /\ Started
    /\ uploaded_file # NoFile
    /\ Interact("remove_file", Session, NoFile, "none", Untouched)

EnterName(n) ==
    /\ Started
    /\ Interact("enter_name", [Session EXCEPT !.rater_name = n], uploaded_file,
                "none", Untouched)

ClickPrevious ==
    /\ NavRendered
    /\ Interact("previous", Session, uploaded_file, "previous", Untouched)

ClickNext ==
    /\ NavRendered
    /\ Interact("next", Session, uploaded_file, "next", Untouched)

ClickSave(form) ==
    /\ FormRendered
    /\ Interact("save", Session, uploaded_file, "save", form)

ClickExport ==
    /\ ExportRendered
    /\ Interact("export", Session, uploaded_file, "export", Untouched)

Next ==
    \/ PageLoad
    \/ \E f \in Files : UploadFile(f)
    \/ RemoveFile
    \/ \E n \in RaterNames : EnterName(n)
    \/ ClickPrevious
    \/ ClickNext
    \/ \E form \in FormInputs : ClickSave(form)
    \/ ClickExport

Spec == Init /\ [][Next]_vars

(* ------------------------------ properties ----------------------------- *)

Stories == GetStories(evaluation_data)
total_count == Len(Stories)
Exceptions == {"JSONDecodeError", "AttributeError", "StreamlitAPIException",
               "IndexError", "KeyError"}
Malformed(f) ==
    \/ f.kind # "dict"
    \/ ~f.has_stories
    \/ \E i \in 1..Len(f.stories) : ~f.stories[i].has_id
IsRange(v) == v \in 1..5

\* C1: whenever a dataset with at least one story is loaded, current_idx is
\* an index of it: 0 <= current_idx <= total_count - 1, also after a re-load
\* with fewer stories.
C1_IndexInRange ==
    (stories_loaded /\ ~Malformed(evaluation_data) /\ total_count >= 1)
        => (0 <= current_idx /\ current_idx <= total_count - 1)

\* C2: loading a payload that is not a mapping with a stories sequence, or
\* that has a case without story_id, fails and changes nothing: the dataset,
\* current_idx and ratings are what they were before.
C2_MalformedLoadRejected ==
    [][(event' = "upload" /\ Malformed(uploaded_file'))
         => /\ outcome' \in Exceptions
            /\ evaluation_data' = evaluation_data
            /\ stories_loaded' = stories_loaded
            /\ current_idx' = current_idx
            /\ ratings' = ratings]_vars

\* C3: a successful load (any file json.load accepts) replaces the dataset
\* and leaves current_idx and ratings as they were; init_session_state on a
\* session that is already initialised changes nothing.
C3_LoadKeepsProgress ==
    [][/\ Started => init_session_state(Session) = Session
       /\ (Started /\ event' = "upload" /\ uploaded_file'.kind \in {"dict", "list"})
            => /\ evaluation_data' = uploaded_file'
               /\ stories_loaded'
               /\ current_idx' = current_idx
               /\ ratings' = ratings]_vars

C3_Witness ==
    /\ event = "upload"
    /\ outcome = "ok"
    /\ current_idx >= 1
    /\ ratings # <<>>

\* C4: a save at index i of a dataset with N stories stores the submitted
\* record under the story_id of the story at index i, changes no other
\* entry, and then moves current_idx to i+1 if i < N-1 and leaves it at i
\* if i = N-1.
C4_SaveStoresAndAdvances ==
    [][event' = "save"
         => LET i == current_idx
                N == total_count
                sid == Stories[i + 1].story_id
            IN  /\ i < N
                /\ Stories[i + 1].has_id
                /\ DictKeys(ratings') = DictKeys(ratings) \cup {sid}
                /\ Len(ratings') = Cardinality(DictKeys(ratings'))
                /\ DictGet(ratings', sid) = saved'[sid].value
                /\ \A k \in DictKeys(ratings) \ {sid} :
                       DictGet(ratings', k) = DictGet(ratings, k)
                /\ current_idx' = IF i < N - 1 THEN i + 1 ELSE i
                /\ evaluation_data' = evaluation_data]_vars

C4_Witness ==
    /\ event = "save"
    /\ total_count = 2
    /\ current_idx = 1
    /\ Len(ratings) = 2
    /\ saved[Stories[1].story_id].form # saved[Stories[2].story_id].form

\* C5: with a dataset of N >= 1 stories loaded, Previous and Next never
\* raise; Next at the last index and Previous at index 0 change nothing; at
\* any other index they move current_idx by exactly 1; they change neither
\* ratings nor the dataset.
C5_NavigationClamped ==
    [][(event' \in {"previous", "next"} /\ ~Malformed(evaluation_data)
            /\ total_count >= 1)
         => /\ outcome' \notin Exceptions
            /\ ratings' = ratings
            /\ evaluation_data' = evaluation_data
            /\ rater_name' = rater_name
            /\ event' = "next" =>
                 current_idx' = IF current_idx = total_count - 1
                                THEN current_idx ELSE current_idx + 1
            /\ event' = "previous" =>
                 current_idx' = IF current_idx = 0
                                THEN current_idx ELSE current_idx - 1]_vars

\* C6: ratings has exactly one entry for each story_id that was saved, and
\* the entry holds the record saved last for it.
C6_OneEntryPerStory ==
    /\ DictKeys(ratings) = DOMAIN saved
    /\ Len(ratings) = Cardinality(DOMAIN saved)
    /\ \A k \in DOMAIN saved : DictGet(ratings, k) = saved[k].value

C6_Witness ==
    /\ Len(ratings) = 2
    /\ \E k \in DOMAIN saved : saved[k].form = AllLowest
    /\ \E k \in DOMAIN saved : saved[k].form = ArmBHighest

\* C7: the exported document's ratings has exactly the keys of the session's
\* ratings, each with the stored record, metadata.total_rated is the number
\* of those keys, and the export changes nothing in the session.
C7_ExportMatchesRatings ==
    [][event' = "export"
         => /\ download' # <<>>
            /\ LET doc == download'[1]
                   members == {doc.ratings[i] : i \in 1..Len(doc.ratings)}
               IN  /\ {m[1] : m \in members} = DictKeys(ratings)
                   /\ Len(doc.ratings) = Cardinality(DictKeys(ratings))
                   /\ \A m \in members : m[2] = DictGet(ratings, m[1])
                   /\ doc.metadata.total_rated = Cardinality(DictKeys(ratings))
            /\ ratings' = ratings
            /\ current_idx' = current_idx
            /\ evaluation_data' = evaluation_data
            /\ stories_loaded' = stories_loaded
            /\ rater_name' = rater_name]_vars

C7_Witness ==
    /\ event = "export"
    /\ download # <<>>
    /\ Len(ratings) = 2
    /\ download[1].metadata.total_rated = 2

\* C8: loading a dataset with an empty stories list stores the dataset and
\* reports that there are no stories; neither the navigation buttons nor the
\* Save button are offered, and current_idx and ratings stay as they were.
C8_EmptyDatasetNotBrowsed ==
    [][(Started /\ event' = "upload" /\ uploaded_file' = JsonStories(<<>>))
         => /\ outcome' = "no_stories"
            /\ evaluation_data' = uploaded_file'
            /\ stories_loaded'
            /\ ~NavRendered'
            /\ ~FormRendered'
            /\ current_idx' = current_idx
            /\ ratings' = ratings]_vars

C8_Witness ==
    /\ event = "upload"
    /\ evaluation_data = JsonStories(<<>>)
    /\ outcome = "no_stories"
    /\ current_idx = 1
    /\ ratings # <<>>

\* C9: every stored record has, for each arm, the six facet scores, the
\* three quality scores and the preference score as integers in 1..5, a
\* winner among the four options, and comments; a save made with no widget
\* touched stores 3 in every numeric field, "" as comments and the radio's
\* first option as winner.
C9_RecordsWellFormed ==
    \A i \in 1..Len(ratings) :
        LET rec == ratings[i].value IN
        /\ DOMAIN rec.arm_a = Facets /\ DOMAIN rec.arm_b = Facets
        /\ DOMAIN rec.arm_a_quality = Qualities /\ DOMAIN rec.arm_b_quality = Qualities
        /\ \A f \in Facets : IsRange(rec.arm_a[f]) /\ IsRange(rec.arm_b[f])
        /\ \A q \in Qualities : IsRange(rec.arm_a_quality[q]) /\ IsRange(rec.arm_b_quality[q])
        /\ IsRange(rec.arm_a_preference) /\ IsRange(rec.arm_b_preference)
        /\ rec.winner \in {"A is better", "B is better", "Both are equal", "Both are poor"}
        /\ rec.comments \in STRING
        /\ (ratings[i].key \in DOMAIN saved /\ saved[ratings[i].key].form = Untouched)
             => /\ \A f \in Facets : rec.arm_a[f] = 3 /\ rec.arm_b[f] = 3
                /\ \A q \in Qualities : rec.arm_a_quality[q] = 3 /\ rec.arm_b_quality[q] = 3
                /\ rec.arm_a_preference = 3 /\ rec.arm_b_preference = 3
                /\ rec.comments = ""
                /\ rec.winner = "A is better"

C9_Witness ==
    /\ \E k \in DOMAIN saved : saved[k].form = Untouched
    /\ \E k \in DOMAIN saved : saved[k].form = AllLowest

\* C10: the exported metadata.rater is the rater's name, and "anonymous"
\* when the rater has entered no name.
C10_RaterDefaultsToAnonymous ==
    download # <<>>
        => download[1].metadata.rater = IF rater_name = "" THEN "anonymous" ELSE rater_name

====
